---- MODULE Spec2Model ----
(***************************************************************************)
(* A model of the SimpleParser class of src/javascript/simpleParser.js:    *)
(* the converter between the "Simple" indentation-sensitive notation and a *)
(* JSON-like value model.                                                  *)
(*                                                                         *)
(* Text is a sequence of one-character strings (JavaScript indices are     *)
(* 0-based, CharAt converts).  A value is a record [type, value]:          *)
(*   null    [type |-> "null",    value |-> <<>>]                          *)
(*   number  [type |-> "number",  value |-> [neg, ip, fr]]  a decimal:     *)
(*           sign, integer part, fraction digits without trailing zeros    *)
(*   string  [type |-> "string",  value |-> text]                          *)
(*   boolean [type |-> "boolean", value |-> TRUE/FALSE]                    *)
(*   array   [type |-> "array",   value |-> sequence of values]            *)
(*   object  [type |-> "object",  value |-> sequence of <<key, value>>],   *)
(*           in the enumeration order of a JavaScript object               *)
(***************************************************************************)
EXTENDS Integers, Sequences, FiniteSets, TLC

\* ------------------------------------------------------------ characters

LF == "\n"
CR == "\r"
TAB == "\t"
BSL == "\\"
DQ == "\""
SQ == "'"

\* JavaScript's undefined and null where a character is expected.
UNDEF == "undefined"
NULL == "null"

Digits == <<"0", "1", "2", "3", "4", "5", "6", "7", "8", "9">>

\* \d of a JavaScript regular expression.
IsDigit(c) == \E d \in 1..10 : Digits[d] = c

DigitVal(c) == (CHOOSE d \in 1..10 : Digits[d] = c) - 1

\* \s of a JavaScript regular expression, and what String.prototype.trim
\* removes (over the characters of the model).
IsSpace(c) == c \in {" ", TAB, LF, CR}

\* ------------------------------------------------- String.prototype.*

\* str[i], 0-based; undefined outside the string.
CharAt(str, i) == IF i >= 0 /\ i < Len(str) THEN str[i + 1] ELSE UNDEF

\* What `+` appends for a character read with str[i]: the text "undefined"
\* for an index past the end.
CharText(c) == IF c = UNDEF THEN <<"u", "n", "d", "e", "f", "i", "n", "e", "d">>
               ELSE <<c>>

\* str.substring(a, b) for 0 <= a, b.
Substring(str, a, b) ==
    LET lo == IF a < b THEN a ELSE b
        hi == IF a < b THEN b ELSE a
        h == IF hi > Len(str) THEN Len(str) ELSE hi
    IN  IF lo >= h THEN <<>> ELSE SubSeq(str, lo + 1, h)

RECURSIVE TrimStart(_)
TrimStart(str) ==
    IF str # <<>> /\ IsSpace(Head(str)) THEN TrimStart(Tail(str)) ELSE str

RECURSIVE TrimEnd(_)
TrimEnd(str) ==
    IF str # <<>> /\ IsSpace(str[Len(str)])
    THEN TrimEnd(SubSeq(str, 1, Len(str) - 1))
    ELSE str

Trim(str) == TrimEnd(TrimStart(str))

Includes(str, c) == \E k \in 1..Len(str) : str[k] = c

\* str.indexOf(c): 0-based, -1 when absent.
IndexOf(str, c) ==
    IF Includes(str, c)
    THEN (CHOOSE k \in 1..Len(str) :
            str[k] = c /\ \A j \in 1..(k - 1) : str[j] # c) - 1
    ELSE -1

StartsWith(str, p) == Len(str) >= Len(p) /\ SubSeq(str, 1, Len(p)) = p

EndsWith(str, p) ==
    Len(str) >= Len(p) /\ SubSeq(str, Len(str) - Len(p) + 1, Len(str)) = p

\* The length of the leading run of whitespace: line.match(/^(\s*)/)[1].length.
RECURSIVE LeadingSpace(_)
LeadingSpace(str) ==
    IF str # <<>> /\ IsSpace(Head(str)) THEN 1 + LeadingSpace(Tail(str)) ELSE 0

\* line.match(/^(\t*)/)[1].length.
RECURSIVE LeadingTabs(_)
LeadingTabs(str) ==
    IF str # <<>> /\ Head(str) = TAB THEN 1 + LeadingTabs(Tail(str)) ELSE 0

\* ------------------------------------------------------- _removeComments

\* The inner loop of the single-line comment: the index of the next line
\* break at or after i, or the length.
RECURSIVE SkipToLineEnd(_, _)
SkipToLineEnd(str, i) ==
    IF i < Len(str) /\ CharAt(str, i) # LF THEN SkipToLineEnd(str, i + 1) ELSE i

\* One iteration of the while loop; st holds the loop's variables.
_removeCommentsStep(str, st) ==
    LET i == st.i
        char == CharAt(str, i)
        nextChar == CharAt(str, i + 1)
    IN  IF ~st.inMultiLineComment /\ (char = DQ \/ char = SQ) THEN
            IF ~st.inString THEN
                [st EXCEPT !.i = i + 1, !.result = Append(@, char),
                           !.inString = TRUE, !.stringChar = char]
            ELSE IF st.stringChar = char /\ CharAt(str, i - 1) # BSL THEN
                [st EXCEPT !.i = i + 1, !.result = Append(@, char),
                           !.inString = FALSE, !.stringChar = NULL]
            ELSE
                [st EXCEPT !.i = i + 1, !.result = Append(@, char)]
        ELSE IF st.inString /\ char = BSL THEN
            [st EXCEPT !.i = i + 2,
                       !.result = Append(@, char) \o CharText(nextChar)]
        ELSE IF ~st.inString /\ char = "/" /\ nextChar = "*" THEN
            [st EXCEPT !.i = i + 2, !.inMultiLineComment = TRUE]
        ELSE IF st.inMultiLineComment /\ char = "*" /\ nextChar = "/" THEN
            [st EXCEPT !.i = i + 2, !.inMultiLineComment = FALSE]
        ELSE IF st.inMultiLineComment THEN
            [st EXCEPT !.i = i + 1]
        ELSE IF ~st.inString /\ ((char = "/" /\ nextChar = "/") \/ char = "#") THEN
            [st EXCEPT !.i = SkipToLineEnd(str, i)]
        ELSE
            [st EXCEPT !.i = i + 1, !.result = Append(@, char)]

\* while (i < str.length): at most n more iterations (every iteration
\* advances i, so str.length of them end the loop).
RECURSIVE _removeCommentsLoop(_, _, _)
_removeCommentsLoop(str, st, n) ==
    IF n = 0 \/ ~(st.i < Len(str)) THEN st
    ELSE IF n = 1 THEN _removeCommentsStep(str, st)
    ELSE _removeCommentsLoop(str, _removeCommentsLoop(str, st, n \div 2),
                             n - (n \div 2))

_removeComments(str) ==
    _removeCommentsLoop(str,
        [i |-> 0, result |-> <<>>, inMultiLineComment |-> FALSE,
         inString |-> FALSE, stringChar |-> NULL],
        Len(str)).result

\* ----------------------------------------------- _processMultilineStrings

\* One iteration of the while loop; st holds the loop's variables.
_processMultilineStringsStep(str, st) ==
    LET i == st.i
        char == CharAt(str, i)
        isQuote == char = DQ \/ char = SQ
        opens == isQuote /\ ~st.inString
        closes == isQuote /\ st.inString /\ st.stringChar = char
                  /\ CharAt(str, i - 1) # BSL
        inString == IF opens THEN TRUE ELSE IF closes THEN FALSE ELSE st.inString
        stringChar == IF opens THEN char ELSE IF closes THEN NULL
                      ELSE st.stringChar
        nextChar == CharAt(str, i + 1)
        quoted == [st EXCEPT !.inString = inString, !.stringChar = stringChar]
    IN  IF char = BSL /\ inString /\ nextChar = "n" THEN
            [quoted EXCEPT !.i = i + 2, !.currentLine = Append(@, LF)]
        ELSE IF char = BSL /\ inString /\ nextChar = "t" THEN
            [quoted EXCEPT !.i = i + 2, !.currentLine = Append(@, TAB)]
        ELSE IF char = LF THEN
            [quoted EXCEPT !.i = i + 1, !.lines = Append(@, st.currentLine),
                           !.currentLine = <<>>]
        ELSE
            [quoted EXCEPT !.i = i + 1, !.currentLine = Append(@, char)]

\* while (i < str.length): at most n more iterations.
RECURSIVE _processMultilineStringsLoop(_, _, _)
_processMultilineStringsLoop(str, st, n) ==
    IF n = 0 \/ ~(st.i < Len(str)) THEN st
    ELSE IF n = 1 THEN _processMultilineStringsStep(str, st)
    ELSE _processMultilineStringsLoop(str,
             _processMultilineStringsLoop(str, st, n \div 2), n - (n \div 2))

\* lines.filter(line => line.trim().length > 0)
RECURSIVE FilterNonBlank(_)
FilterNonBlank(lines) ==
    IF lines = <<>> THEN <<>>
    ELSE IF Len(Trim(Head(lines))) > 0
         THEN <<Head(lines)>> \o FilterNonBlank(Tail(lines))
         ELSE FilterNonBlank(Tail(lines))

_processMultilineStrings(str) ==
    LET st == _processMultilineStringsLoop(str,
                  [i |-> 0, lines |-> <<>>, currentLine |-> <<>>,
                   inString |-> FALSE, stringChar |-> NULL],
                  Len(str))
        lines == IF st.currentLine # <<>> THEN Append(st.lines, st.currentLine)
                 ELSE st.lines
    IN  FilterNonBlank(lines)

\* ------------------------------------- _detectIndentType, _getIndentLevel

\* A line the block parser and the indent detection skip: blank, or starting
\* with a comment marker after trimming.
IsSkippedLine(line) ==
    LET trimmed == Trim(line)
    IN  trimmed = <<>> \/ StartsWith(trimmed, <<"/", "/">>)
        \/ StartsWith(trimmed, <<"#">>)

\* The first line, from k on, that is not skipped and has leading
\* whitespace; 0 when there is none.
RECURSIVE FirstIndentedLine(_, _)
FirstIndentedLine(lines, k) ==
    IF k > Len(lines) THEN 0
    ELSE IF ~IsSkippedLine(lines[k]) /\ LeadingSpace(lines[k]) > 0 THEN k
    ELSE FirstIndentedLine(lines, k + 1)

\* The instance's indentType and indentSize after _detectIndentType(lines),
\* from their values before it (NULL: not set).
_detectIndentType(lines, indent) ==
    LET k == FirstIndentedLine(lines, 1)
        spaces == IF k = 0 THEN <<>> ELSE SubSeq(lines[k], 1, LeadingSpace(lines[k]))
        found == IF k = 0 THEN indent
                 ELSE IF Includes(spaces, TAB)
                      THEN [indentType |-> "tab", indentSize |-> 1]
                      ELSE [indentType |-> "space", indentSize |-> Len(spaces)]
    IN  IF found.indentType = NULL
        THEN [indentType |-> "space", indentSize |-> 2]
        ELSE found

_getIndentLevel(line, indent) ==
    IF indent.indentType = "tab" THEN LeadingTabs(line)
    ELSE LeadingSpace(line) \div indent.indentSize

\* ------------------------------------------------------------- values

MkNull == [type |-> "null", value |-> <<>>]
MkNumber(neg, ip, fr) ==
    [type |-> "number", value |-> [neg |-> neg, ip |-> ip, fr |-> fr]]
MkInt(n) == MkNumber(FALSE, n, <<>>)
MkString(str) == [type |-> "string", value |-> str]
MkBoolean(b) == [type |-> "boolean", value |-> b]
MkArray(items) == [type |-> "array", value |-> items]
MkObject(entries) == [type |-> "object", value |-> entries]
\* JavaScript's undefined where a value is expected (a hole of an array).
Undefined == [type |-> "undefined", value |-> <<>>]

IsContainer(v) == v.type = "array" \/ v.type = "object"

AllDigits(str) == \A k \in 1..Len(str) : IsDigit(str[k])

\* The number a run of decimal digits denotes.
RECURSIVE DigitsValue(_)
DigitsValue(str) ==
    IF str = <<>> THEN 0
    ELSE 10 * DigitsValue(SubSeq(str, 1, Len(str) - 1)) + DigitVal(str[Len(str)])

RECURSIVE StripTrailingZeros(_)
StripTrailingZeros(str) ==
    IF str # <<>> /\ str[Len(str)] = "0"
    THEN StripTrailingZeros(SubSeq(str, 1, Len(str) - 1))
    ELSE str

\* A key that a JavaScript object enumerates as an integer index: a canonical
\* decimal below 2^32 - 1 (here: of at most 9 digits; the keys of the model
\* are shorter).  Such keys come first, in ascending order.
IsIndexKey(key) ==
    /\ key # <<>>
    /\ AllDigits(key)
    /\ (key[1] # "0" \/ Len(key) = 1)
    /\ Len(key) <= 9

HasKey(entries, key) == \E k \in 1..Len(entries) : entries[k][1] = key

\* obj[key], undefined when absent.
ObjGet(entries, key) ==
    IF HasKey(entries, key)
    THEN entries[CHOOSE k \in 1..Len(entries) : entries[k][1] = key][2]
    ELSE Undefined

\* obj[key] = val on the entries of obj, kept in Object.entries order.
ObjSet(entries, key, val) ==
    IF HasKey(entries, key) THEN
        LET at == CHOOSE k \in 1..Len(entries) : entries[k][1] = key
        IN  SubSeq(entries, 1, at - 1) \o <<<<key, val>>>>
            \o SubSeq(entries, at + 1, Len(entries))
    ELSE IF IsIndexKey(key) THEN
        LET before(k) == IsIndexKey(entries[k][1])
                         /\ DigitsValue(entries[k][1]) < DigitsValue(key)
            n == Cardinality({k \in 1..Len(entries) : before(k)})
        IN  SubSeq(entries, 1, n) \o <<<<key, val>>>>
            \o SubSeq(entries, n + 1, Len(entries))
    ELSE Append(entries, <<key, val>>)

\* ------------------------------------- _isNumber, _parseNumber, _parseString

\* /^-?\d+(\.\d+)?$/.test(str)
_isNumber(str) ==
    LET body == IF str # <<>> /\ str[1] = "-" THEN Tail(str) ELSE str
        dot == IndexOf(body, ".")
        ip == IF dot = -1 THEN body ELSE Substring(body, 0, dot)
        fr == IF dot = -1 THEN <<>> ELSE Substring(body, dot + 1, Len(body))
    IN  /\ ip # <<>>
        /\ AllDigits(ip)
        /\ dot # -1 => (fr # <<>> /\ AllDigits(fr))

\* parseFloat(str) for a str that _isNumber accepts (so never NaN): the
\* decimal it denotes, -0 being the number 0.
_parseNumber(str) ==
    LET neg == str[1] = "-"
        body == IF neg THEN Tail(str) ELSE str
        dot == IndexOf(body, ".")
        ip == DigitsValue(IF dot = -1 THEN body ELSE Substring(body, 0, dot))
        fr == IF dot = -1 THEN <<>>
              ELSE StripTrailingZeros(Substring(body, dot + 1, Len(body)))
    IN  MkNumber(neg /\ (ip # 0 \/ fr # <<>>), ip, fr)

\* The replacement of one escape \\([nrt\\"]).
Unescape(c) ==
    CASE c = "n" -> LF
      [] c = "r" -> CR
      [] c = "t" -> TAB
      [] OTHER -> c

\* str.replace(/\\([nrt\\"])/g, ...): left to right, a backslash followed by
\* one of n r t \ " is replaced, every other character is kept.
RECURSIVE _parseString(_)
_parseString(str) ==
    IF str = <<>> THEN <<>>
    ELSE IF str[1] = BSL /\ Len(str) >= 2 /\ str[2] \in {"n", "r", "t", BSL, DQ}
    THEN <<Unescape(str[2])>> \o _parseString(SubSeq(str, 3, Len(str)))
    ELSE <<str[1]>> \o _parseString(Tail(str))

\* ------------------------------------------------------- _splitByComma

RECURSIVE _splitByCommaFrom(_, _, _, _, _, _, _)
_splitByCommaFrom(str, i, result, current, depth, inString, stringChar) ==
    IF ~(i < Len(str)) THEN
        IF Trim(current) # <<>> THEN Append(result, Trim(current)) ELSE result
    ELSE
    LET char == CharAt(str, i)
        quote == (char = DQ \/ char = SQ) /\ (i = 0 \/ CharAt(str, i - 1) # BSL)
        opens == quote /\ ~inString
        closes == quote /\ inString /\ stringChar = char
        inString2 == IF opens THEN TRUE ELSE IF closes THEN FALSE ELSE inString
        stringChar2 == IF opens THEN char ELSE IF closes THEN NULL ELSE stringChar
        depth2 == IF inString2 THEN depth
                  ELSE IF char = "[" \/ char = "{" THEN depth + 1
                  ELSE IF char = "]" \/ char = "}" THEN depth - 1
                  ELSE depth
    IN  IF ~inString2 /\ char = "," /\ depth2 = 0 THEN
            _splitByCommaFrom(str, i + 1, Append(result, Trim(current)), <<>>,
                              depth2, inString2, stringChar2)
        ELSE
            _splitByCommaFrom(str, i + 1, result, Append(current, char),
                              depth2, inString2, stringChar2)

_splitByComma(str) == _splitByCommaFrom(str, 0, <<>>, <<>>, 0, FALSE, NULL)

\* --------------- _parseValue, _getValueType, _parseInlineArray/Object

IsQuoted(valueStr) ==
    \/ StartsWith(valueStr, <<DQ>>) /\ EndsWith(valueStr, <<DQ>>)
    \/ StartsWith(valueStr, <<SQ>>) /\ EndsWith(valueStr, <<SQ>>)

_getValueType(valueStr) ==
    IF valueStr = <<"N", "o", "n", "e">> THEN "null"
    ELSE IF valueStr = <<"{", "}">> THEN "object"
    ELSE IF valueStr = <<"[", "]">> THEN "array"
    ELSE IF _isNumber(valueStr) THEN "number"
    ELSE IF IsQuoted(valueStr) THEN "string"
    ELSE IF StartsWith(valueStr, <<"[">>) /\ EndsWith(valueStr, <<"]">>) THEN "array"
    ELSE IF StartsWith(valueStr, <<"{">>) /\ EndsWith(valueStr, <<"}">>) THEN "object"
    ELSE "string"

RECURSIVE _parseValue(_)
RECURSIVE _parseInlineArray(_)
RECURSIVE _parseInlineObject(_)
RECURSIVE ParseItems(_)
RECURSIVE ParsePairs(_, _)

_parseValue(valueStr) ==
    IF valueStr = <<"N", "o", "n", "e">> THEN MkNull
    ELSE IF valueStr = <<"{", "}">> THEN MkObject(<<>>)
    ELSE IF valueStr = <<"[", "]">> THEN MkArray(<<>>)
    ELSE IF _isNumber(valueStr) THEN _parseNumber(valueStr)
    ELSE IF IsQuoted(valueStr) THEN
        MkString(_parseString(Substring(valueStr, 1, Len(valueStr) - 1)))
    ELSE IF StartsWith(valueStr, <<"[">>) /\ EndsWith(valueStr, <<"]">>) THEN
        _parseInlineArray(valueStr)
    ELSE IF StartsWith(valueStr, <<"{">>) /\ EndsWith(valueStr, <<"}">>) THEN
        _parseInlineObject(valueStr)
    ELSE MkString(_parseString(valueStr))

\* items.map(item => this._parseValue(item.trim()))
ParseItems(items) ==
    IF items = <<>> THEN <<>>
    ELSE <<_parseValue(Trim(Head(items)))>> \o ParseItems(Tail(items))

_parseInlineArray(str) ==
    LET content == Trim(Substring(str, 1, Len(str) - 1))
    IN  IF content = <<>> THEN MkArray(<<>>)
        ELSE MkArray(ParseItems(_splitByComma(content)))

\* The loop over the pairs of an inline object, obj being its entries so far.
ParsePairs(pairs, obj) ==
    IF pairs = <<>> THEN obj
    ELSE
    LET pair == Head(pairs)
        colonIndex == IndexOf(pair, ":")
        key == Trim(Substring(pair, 0, colonIndex))
        valueStr == Trim(Substring(pair, colonIndex + 1, Len(pair)))
    IN  IF colonIndex = -1 THEN ParsePairs(Tail(pairs), obj)
        ELSE ParsePairs(Tail(pairs), ObjSet(obj, key, _parseValue(valueStr)))

_parseInlineObject(str) ==
    LET content == Trim(Substring(str, 1, Len(str) - 1))
    IN  IF content = <<>> THEN MkObject(<<>>)
        ELSE MkObject(ParsePairs(_splitByComma(content), <<>>))

\* ---------------------------------------------------------- _parseKeyValue

\* [threw |-> TRUE] for the Error thrown on a line without a colon,
\* otherwise the pair [key, value]: value is the parsed value, whose type is
\* the type the source stores beside it.
_parseKeyValue(line, parentType) ==
    LET colonIndex == IndexOf(line, ":")
        key == Trim(Substring(line, 0, colonIndex))
        valueStr == Trim(Substring(line, colonIndex + 1, Len(line)))
        value ==
            IF valueStr = <<"N", "o", "n", "e">> THEN MkNull
            ELSE IF valueStr = <<"{", "}">> THEN MkObject(<<>>)
            ELSE IF valueStr = <<"[", "]">> THEN MkArray(<<>>)
            ELSE IF _isNumber(valueStr) THEN _parseNumber(valueStr)
            ELSE IF IsQuoted(valueStr) THEN
                MkString(_parseString(Substring(valueStr, 1, Len(valueStr) - 1)))
            ELSE IF StartsWith(valueStr, <<"[">>) /\ EndsWith(valueStr, <<"]">>) THEN
                _parseInlineArray(valueStr)
            ELSE IF StartsWith(valueStr, <<"{">>) /\ EndsWith(valueStr, <<"}">>) THEN
                _parseInlineObject(valueStr)
            ELSE MkString(_parseString(valueStr))
    IN  IF colonIndex = -1
        THEN [threw |-> TRUE, key |-> <<>>, value |-> Undefined]
        ELSE [threw |-> FALSE, key |-> key, value |-> value]

\* ------------------------------------------------------------ _linesToAst

\* The parse tree is a heap of nodes, a node being named by its index in
\* `nodes`; children holds the names of a node's children and hasChildren
\* says whether the node has a children property at all.  Node 1 is the
\* root { type: 'object', children: [] }, which has no key, value or indent.
Root == 1

RootNode ==
    [key |-> <<>>, value |-> Undefined, type |-> "object", indent |-> -1,
     children |-> <<>>, hasChildren |-> TRUE]

\* The state of the loop of _linesToAst: the heap, the stack of frames
\* {node, indent}, and whether _parseKeyValue threw.
AstInit ==
    [nodes |-> <<RootNode>>,
     stack |-> <<[node |-> Root, indent |-> -1]>>,
     threw |-> FALSE]

\* PopFrames with > for >=: a frame of the line's own level stays.
RECURSIVE PopFramesDeeperOnly(_, _)
PopFramesDeeperOnly(stack, indent) ==
    IF Len(stack) > 1 /\ stack[Len(stack)].indent > indent
    THEN PopFramesDeeperOnly(SubSeq(stack, 1, Len(stack) - 1), indent)
    ELSE stack

\* while (stack.length > 1 && stack[stack.length - 1].indent >= indent) pop
RECURSIVE PopFrames(_, _)
PopFrames(stack, indent) ==
    IF Len(stack) > 1 /\ stack[Len(stack)].indent >= indent
    THEN PopFrames(SubSeq(stack, 1, Len(stack) - 1), indent)
    ELSE stack

\* parent.node.children.push(node), node being new on the heap.
PushChild(nodes, parent, node) ==
    LET id == Len(nodes) + 1
    IN  Append([nodes EXCEPT ![parent].children = Append(@, id)], node)

\* One iteration of the loop over the lines.
LineStep(st, line, options, style) ==
    LET indent == _getIndentLevel(line, style)
        trimmed == Trim(line)
        stack == PopFrames(st.stack, indent)
        parent == stack[Len(stack)]
        parentType == st.nodes[parent.node].type
        kv == _parseKeyValue(trimmed, parentType)
        opens == kv.value.type = "object" \/ kv.value.type = "array"
    IN  IF IsSkippedLine(line) THEN st
        ELSE IF /\ options.arrayFormat = "values"
                /\ parentType = "array"
                /\ ~Includes(line, ":") THEN
            [nodes |-> PushChild(st.nodes, parent.node,
                         [key |-> <<"-">>, value |-> _parseValue(trimmed),
                          type |-> _getValueType(trimmed), indent |-> indent,
                          children |-> <<>>, hasChildren |-> FALSE]),
             stack |-> stack,
             threw |-> FALSE]
        ELSE IF kv.threw THEN
            [nodes |-> st.nodes, stack |-> stack, threw |-> TRUE]
        ELSE
            [nodes |-> PushChild(st.nodes, parent.node,
                         [key |-> kv.key, value |-> kv.value,
                          type |-> kv.value.type, indent |-> indent,
                          children |-> <<>>, hasChildren |-> opens]),
             stack |-> IF opens
                       THEN Append(stack, [node |-> Len(st.nodes) + 1,
                                           indent |-> indent])
                       ELSE stack,
             threw |-> FALSE]

\* The loop from line k on; it ends at the first line that throws.
RECURSIVE _linesToAstFrom(_, _, _, _, _)
_linesToAstFrom(lines, k, st, options, style) ==
    IF k > Len(lines) \/ st.threw THEN st
    ELSE _linesToAstFrom(lines, k + 1, LineStep(st, lines[k], options, style),
                         options, style)

\* ------------------------------------------------------------ _astToObject

\* Number(str) and parseInt(str, 10) on the keys of the model: text made of
\* digits, letters other than e and x, spaces and the hyphen.
NaN == [nan |-> TRUE, n |-> 0]
Num(n) == [nan |-> FALSE, n |-> n]

NumberOf(str) ==
    LET t == Trim(str)
    IN  IF t = <<>> THEN Num(0)
        ELSE IF AllDigits(t) THEN Num(DigitsValue(t))
        ELSE NaN

RECURSIVE LeadingDigits(_)
LeadingDigits(str) ==
    IF str # <<>> /\ IsDigit(Head(str))
    THEN <<Head(str)>> \o LeadingDigits(Tail(str))
    ELSE <<>>

ParseInt(str) ==
    LET d == LeadingDigits(TrimStart(str))
    IN  IF d = <<>> THEN NaN ELSE Num(DigitsValue(d))

\* key.split('-')
RECURSIVE SplitHyphen(_, _)
SplitHyphen(str, current) ==
    IF str = <<>> THEN <<current>>
    ELSE IF Head(str) = "-" THEN <<current>> \o SplitHyphen(Tail(str), <<>>)
    ELSE SplitHyphen(Tail(str), Append(current, Head(str)))

\* array[index] = val on a JavaScript array with holes (Undefined).
RECURSIVE Holes(_)
Holes(n) == IF n <= 0 THEN <<>> ELSE Append(Holes(n - 1), Undefined)

ArrSet(array, index, val) ==
    IF index < Len(array)
    THEN SubSeq(array, 1, index) \o <<val>> \o SubSeq(array, index + 2, Len(array))
    ELSE array \o Holes(index - Len(array)) \o <<val>>

\* for (let i = start; i <= end; i++) { array[i] = value; explicitIndices.push(i) }
RECURSIVE SetRange(_, _, _, _)
SetRange(acc, i, end, value) ==
    IF i > end THEN acc
    ELSE SetRange([acc EXCEPT !.array = ArrSet(@, i, value),
                              !.explicitIndices = Append(@, i)],
                  i + 1, end, value)

SeqIncludes(seq, x) == \E k \in 1..Len(seq) : seq[k] = x

\* SkipExplicit without the loop: the cursor stays where it is, claimed or
\* not.
SkipNothing(explicitIndices, currentIndex) == currentIndex

\* while (explicitIndices.includes(currentIndex)) currentIndex++
RECURSIVE SkipExplicit(_, _)
SkipExplicit(explicitIndices, currentIndex) ==
    IF SeqIncludes(explicitIndices, currentIndex)
    THEN SkipExplicit(explicitIndices, currentIndex + 1)
    ELSE currentIndex

\* The loop over dashIndices.
RECURSIVE FillDashes(_, _, _, _)
FillDashes(array, explicitIndices, dashIndices, currentIndex) ==
    IF dashIndices = <<>> THEN array
    ELSE LET at == SkipExplicit(explicitIndices, currentIndex)
         IN  FillDashes(ArrSet(array, at, Head(dashIndices)), explicitIndices,
                        Tail(dashIndices), at + 1)

\* if (array[i] === undefined) array[i] = 0
RECURSIVE FillGaps(_)
FillGaps(array) ==
    IF array = <<>> THEN <<>>
    ELSE <<IF Head(array).type = "undefined" THEN MkInt(0) ELSE Head(array)>>
         \o FillGaps(Tail(array))

RECURSIVE _astToObject(_, _)
RECURSIVE ObjectChildren(_, _, _)
RECURSIVE ArrayChildren(_, _, _)

\* The loop over the children of an object node, obj being its entries so far.
ObjectChildren(nodes, children, obj) ==
    IF children = <<>> THEN obj
    ELSE LET child == nodes[Head(children)]
         IN  ObjectChildren(nodes, Tail(children),
                 ObjSet(obj, child.key,
                        IF child.type = "object" \/ child.type = "array"
                        THEN _astToObject(nodes, Head(children))
                        ELSE child.value))

\* The loop over the children of an array node; acc holds array,
\* explicitIndices and dashIndices.
ArrayChildren(nodes, children, acc) ==
    IF children = <<>> THEN acc
    ELSE
    LET child == nodes[Head(children)]
        value == _astToObject(nodes, Head(children))
        parts == SplitHyphen(child.key, <<>>)
        start == NumberOf(parts[1])
        end == NumberOf(parts[2])
        index == ParseInt(child.key)
    IN  IF child.key = <<"-">> THEN
            ArrayChildren(nodes, Tail(children),
                [acc EXCEPT !.dashIndices = Append(@, value)])
        ELSE IF Includes(child.key, "-") THEN
            ArrayChildren(nodes, Tail(children),
                IF start.nan \/ end.nan THEN acc
                ELSE SetRange(acc, start.n, end.n, value))
        ELSE IF ~index.nan THEN
            ArrayChildren(nodes, Tail(children),
                [acc EXCEPT !.array = ArrSet(@, index.n, value),
                            !.explicitIndices = Append(@, index.n)])
        ELSE ArrayChildren(nodes, Tail(children), acc)

_astToObject(nodes, id) ==
    LET astNode == nodes[id]
    IN  IF astNode.type \in {"string", "number", "null"} THEN astNode.value
        ELSE IF astNode.type = "object" THEN
            MkObject(ObjectChildren(nodes, astNode.children, <<>>))
        ELSE IF astNode.type = "array" THEN
            IF astNode.value.type # "undefined" /\ ~astNode.hasChildren
            THEN astNode.value
            ELSE
            LET acc == ArrayChildren(nodes, astNode.children,
                           [array |-> <<>>, explicitIndices |-> <<>>,
                            dashIndices |-> <<>>])
                array == FillGaps(FillDashes(acc.array, acc.explicitIndices,
                                             acc.dashIndices, 0))
            IN  IF Len(array) = 0 /\ astNode.value.type = "array"
                THEN astNode.value
                ELSE MkArray(array)
        ELSE astNode.value

\* ------------------------------------------------------------------ parse

\* The instance fields the parser uses.
Style(indentType, indentSize) ==
    [indentType |-> indentType, indentSize |-> indentSize]

\* parse(simpleStr, options) on an instance whose indent fields are `style`:
\* what it returns (threw: the Error of _parseKeyValue) and the indent fields
\* it leaves.
parse(simpleStr, options, style) ==
    LET processed == _removeComments(simpleStr)
        lines == _processMultilineStrings(processed)
        style2 == _detectIndentType(lines, style)
        st == _linesToAstFrom(lines, 1, AstInit, options, style2)
    IN  [threw |-> st.threw,
         value |-> IF st.threw THEN Undefined ELSE _astToObject(st.nodes, Root),
         style |-> style2]

\* ------------------------------------------------ stringify: the helpers

\* typeof v
TypeOf(v) ==
    IF v.type \in {"null", "array", "object"} THEN "object" ELSE v.type

RECURSIVE _isEqual(_, _)
_isEqual(a, b) ==
    IF TypeOf(a) # TypeOf(b) THEN FALSE
    ELSE IF a.type = "null" \/ b.type = "null" THEN a.type = b.type
    ELSE IF TypeOf(a) = "object" THEN
        IF a.type = "array" /\ b.type = "array" THEN
            /\ Len(a.value) = Len(b.value)
            /\ \A i \in 1..Len(a.value) : _isEqual(a.value[i], b.value[i])
        ELSE IF a.type # "array" /\ b.type # "array" THEN
            /\ Len(a.value) = Len(b.value)
            /\ \A i \in 1..Len(a.value) :
                   _isEqual(a.value[i][2], ObjGet(b.value, a.value[i][1]))
        ELSE FALSE
    ELSE a.value = b.value

\* _needsQuotes without the test for the keywords.
NeedsQuotesNoKeywords(str) ==
    \/ str # <<>> /\ IsDigit(str[1])
    \/ Includes(str, ":") \/ Includes(str, ",") \/ Includes(str, "[")
    \/ Includes(str, "]") \/ Includes(str, "{") \/ Includes(str, "}")
    \/ str # <<>> /\ (IsSpace(str[1]) \/ IsSpace(str[Len(str)]))

\* /^\d/.test(str), the keywords, the structural characters,
\* /^\s|\s$/.test(str)
_needsQuotes(str) ==
    \/ str # <<>> /\ IsDigit(str[1])
    \/ str = <<"N", "o", "n", "e">>
    \/ str = <<"t", "r", "u", "e">>
    \/ str = <<"f", "a", "l", "s", "e">>
    \/ Includes(str, ":") \/ Includes(str, ",") \/ Includes(str, "[")
    \/ Includes(str, "]") \/ Includes(str, "{") \/ Includes(str, "}")
    \/ str # <<>> /\ (IsSpace(str[1]) \/ IsSpace(str[Len(str)]))

\* str.replace(/[\n\t\\"]/g, ...)
RECURSIVE _escapeString(_)
_escapeString(str) ==
    IF str = <<>> THEN <<>>
    ELSE (CASE str[1] = LF -> <<BSL, "n">>
            [] str[1] = TAB -> <<BSL, "t">>
            [] str[1] = BSL -> <<BSL, BSL>>
            [] str[1] = DQ -> <<BSL, DQ>>
            [] OTHER -> <<str[1]>>)
         \o _escapeString(Tail(str))

_shouldInlineArray(arr) ==
    IF Len(arr) = 0 THEN TRUE
    ELSE IF Len(arr) > 3 THEN FALSE
    ELSE \A k \in 1..Len(arr) :
            /\ ~(TypeOf(arr[k]) = "object" /\ arr[k].type # "null")
            /\ ~(arr[k].type = "array" /\ Len(arr[k].value) > 0)

_shouldInlineObject(entries) ==
    IF Len(entries) = 0 THEN TRUE
    ELSE IF Len(entries) > 3 THEN FALSE
    ELSE \A k \in 1..Len(entries) :
            /\ ~(TypeOf(entries[k][2]) = "object" /\ entries[k][2].type # "null")
            /\ ~(entries[k][2].type = "array" /\ Len(entries[k][2].value) > 0)

\* char.repeat(n)
RECURSIVE Repeat(_, _)
Repeat(char, n) == IF n <= 0 THEN <<>> ELSE <<char>> \o Repeat(char, n - 1)

_getIndentString(level, options) ==
    Repeat(options.indentChar, level * options.indent)

\* n.toString() for an integer n >= 0.
RECURSIVE IntToString(_)
IntToString(n) ==
    IF n < 10 THEN <<Digits[n + 1]>>
    ELSE IntToString(n \div 10) \o <<Digits[(n % 10) + 1]>>

\* obj.toString() for a number: a decimal of the model (no exponent form).
NumberToString(d) ==
    (IF d.neg THEN <<"-">> ELSE <<>>) \o IntToString(d.ip)
    \o (IF d.fr = <<>> THEN <<>> ELSE <<".">> \o d.fr)

\* items.join(', ')
RECURSIVE Join(_)
Join(items) ==
    IF items = <<>> THEN <<>>
    ELSE IF Len(items) = 1 THEN items[1]
    ELSE items[1] \o <<",", " ">> \o Join(Tail(items))

\* -------------------------------------------------------- _objectToSimple

\* The '{}' line a block mapping starts with: none for the first one of
\* the call.
MarkerLine(outerParsed) == IF outerParsed THEN <<"{", "}", LF>> ELSE <<>>

\* _objectToSimple reads and writes this.outerParsed, so it takes the field
\* and returns it with the text: [text, outerParsed, marks].  marks records,
\* for each mapping rendered in block form, in the order they are rendered,
\* whether its text was started with the '{}' line.
RECURSIVE _objectToSimple(_, _, _, _)
RECURSIVE RenderItems(_, _, _, _)
RECURSIVE RenderValues(_, _, _, _, _)
RECURSIVE RenderIndexed(_, _, _, _, _)
RECURSIVE RenderPairs(_, _, _, _)
RECURSIVE RenderEntries(_, _, _, _)

Rendered(text, outerParsed, marks) ==
    [text |-> text, outerParsed |-> outerParsed, marks |-> marks]

\* obj.map(item => this._objectToSimple(item, level, options)): acc.text holds
\* the items rendered so far.
RenderItems(items, level, options, acc) ==
    IF items = <<>> THEN acc
    ELSE LET r == _objectToSimple(Head(items), level, options, acc.outerParsed)
         IN  RenderItems(Tail(items), level, options,
                 Rendered(Append(acc.text, r.text), r.outerParsed,
                          acc.marks \o r.marks))

\* The loop of the 'values' format from element i (0-based) on.
RenderValues(obj, i, level, options, acc) ==
    IF ~(i < Len(obj)) THEN acc
    ELSE LET indent == _getIndentString(level + 1, options)
             r == _objectToSimple(obj[i + 1], level + 1, options, acc.outerParsed)
         IN  RenderValues(obj, i + 1, level, options,
                 Rendered(acc.text \o indent \o r.text \o <<LF>>,
                          r.outerParsed, acc.marks \o r.marks))

\* RunEnd without the loop: every run ends after its first element.
RunEndAtOnce(obj, i, j) == j

\* let j = i + 1; while (j < obj.length && this._isEqual(obj[i], obj[j])) j++
RECURSIVE RunEnd(_, _, _)
RunEnd(obj, i, j) ==
    IF j < Len(obj) /\ _isEqual(obj[i + 1], obj[j + 1])
    THEN RunEnd(obj, i, j + 1)
    ELSE j

\* The loop of the 'indexed' format from element i (0-based) on.
RenderIndexed(obj, i, level, options, acc) ==
    IF ~(i < Len(obj)) THEN acc
    ELSE LET j == RunEnd(obj, i, i + 1)
             indent == _getIndentString(level + 1, options)
             r == _objectToSimple(obj[i + 1], level + 1, options, acc.outerParsed)
             key == IF j - i > 1
                    THEN IntToString(i) \o <<"-">> \o IntToString(j - 1)
                    ELSE IntToString(i)
         IN  RenderIndexed(obj, j, level, options,
                 Rendered(acc.text \o indent \o key \o <<":", " ">> \o r.text
                          \o <<LF>>,
                          r.outerParsed, acc.marks \o r.marks))

\* entries.map(([key, value]) => `${key}: ${...}`)
RenderPairs(entries, level, options, acc) ==
    IF entries = <<>> THEN acc
    ELSE LET r == _objectToSimple(Head(entries)[2], level, options,
                                  acc.outerParsed)
         IN  RenderPairs(Tail(entries), level, options,
                 Rendered(Append(acc.text,
                                 Head(entries)[1] \o <<":", " ">> \o r.text),
                          r.outerParsed, acc.marks \o r.marks))

\* for (const [key, value] of entries) result += `${indent}${key}: ${valueStr}\n`
RenderEntries(entries, level, options, acc) ==
    IF entries = <<>> THEN acc
    ELSE LET indent == _getIndentString(level, options)
             r == _objectToSimple(Head(entries)[2], level + 1, options,
                                  acc.outerParsed)
         IN  RenderEntries(Tail(entries), level, options,
                 Rendered(acc.text \o indent \o Head(entries)[1] \o <<":", " ">>
                          \o r.text \o <<LF>>,
                          r.outerParsed, acc.marks \o r.marks))

_objectToSimple(obj, level, options, outerParsed) ==
    IF obj.type = "null" THEN
        Rendered(<<"N", "o", "n", "e">>, outerParsed, <<>>)
    ELSE IF obj.type = "number" THEN
        Rendered(NumberToString(obj.value), outerParsed, <<>>)
    ELSE IF obj.type = "boolean" THEN
        Rendered(IF obj.value THEN <<"t", "r", "u", "e">>
                 ELSE <<"f", "a", "l", "s", "e">>, outerParsed, <<>>)
    ELSE IF obj.type = "string" THEN
        IF _needsQuotes(obj.value)
        THEN Rendered(<<DQ>> \o _escapeString(obj.value) \o <<DQ>>,
                      outerParsed, <<>>)
        ELSE Rendered(_escapeString(obj.value), outerParsed, <<>>)
    ELSE IF obj.type = "array" THEN
        IF Len(obj.value) = 0 THEN Rendered(<<"[", "]">>, outerParsed, <<>>)
        ELSE IF _shouldInlineArray(obj.value) THEN
            LET items == RenderItems(obj.value, level, options,
                                     Rendered(<<>>, outerParsed, <<>>))
            IN  Rendered(<<"[">> \o Join(items.text) \o <<"]">>,
                         items.outerParsed, items.marks)
        ELSE
            LET start == Rendered(<<"[", "]", LF>>, outerParsed, <<>>)
                r == IF options.arrayFormat = "values"
                     THEN RenderValues(obj.value, 0, level, options, start)
                     ELSE RenderIndexed(obj.value, 0, level, options, start)
            IN  Rendered(Trim(r.text), r.outerParsed, r.marks)
    ELSE IF obj.type = "object" THEN
        IF _shouldInlineObject(obj.value) THEN
            LET pairs == RenderPairs(obj.value, level, options,
                                     Rendered(<<>>, outerParsed, <<>>))
            IN  Rendered(<<"{">> \o Join(pairs.text) \o <<"}">>,
                         pairs.outerParsed, pairs.marks)
        ELSE
            LET start == Rendered(MarkerLine(outerParsed), TRUE,
                                  <<MarkerLine(outerParsed) # <<>>>>)
                r == RenderEntries(obj.value, level, options, start)
            IN  Rendered(Trim(r.text), r.outerParsed, r.marks)
    ELSE Rendered(<<>>, outerParsed, <<>>)

\* -------------------------------------------------------------- stringify

\* The options a call leaves out take these values.
defaultOptions == [indent |-> 2, indentChar |-> " ", arrayFormat |-> "indexed"]

\* stringify without the reset of this.outerParsed: the field is as the
\* call before left it.
StringifyNoReset(obj, options, outerParsed) ==
    _objectToSimple(obj, 0, options, outerParsed)

\* stringify(obj, options) on an instance whose outerParsed field is
\* `outerParsed` when the call starts: the field is reset, then the value is
\* rendered at level 0.
stringify(obj, options, outerParsed) == _objectToSimple(obj, 0, options, FALSE)

\* ======================================================= the state machine
\*
\* One converter instance and its caller.  The fields of the instance are
\* indentType, indentSize and outerParsed.  A parse call is taken in steps,
\* one per iteration of the loop of _linesToAst, so that the frame stack can
\* be observed; a stringify call is one step.  pc is the caller's position:
\*   "idle"      no call in progress, nothing returned
\*   "lines"     inside parse, in the loop of _linesToAst
\*   "returned"  the last call has returned (or thrown): ret holds the outcome

VARIABLES
    indentType, indentSize, outerParsed,
    pc, call, simpleStr, arrayFormat,
    lines, next, nodes, stack,
    obj, marks, ret, roundTrip

vars == <<indentType, indentSize, outerParsed, pc, call, simpleStr,
          arrayFormat, lines, next, nodes, stack, obj, marks, ret, roundTrip>>

\* What a call gave back: nothing yet, a value, a text, or the Error thrown.
NoReturn == [kind |-> "none", value |-> Undefined, text |-> <<>>]
ReturnValue(v) == [kind |-> "value", value |-> v, text |-> <<>>]
ReturnText(t) == [kind |-> "text", value |-> Undefined, text |-> t]
Thrown == [kind |-> "error", value |-> Undefined, text |-> <<>>]

ArrayFormats == {"indexed", "values"}

\* new SimpleParser(), and no call made.
Init ==
    /\ indentType = NULL
    /\ indentSize = 0
    /\ outerParsed = FALSE
    /\ pc = "idle"
    /\ call = "none"
    /\ simpleStr = <<>>
    /\ arrayFormat = "indexed"
    /\ lines = <<>>
    /\ next = 1
    /\ nodes = <<>>
    /\ stack = <<>>
    /\ obj = Undefined
    /\ marks = <<>>
    /\ ret = NoReturn
    /\ roundTrip = FALSE

\* parse(text, {arrayFormat: format}) up to the loop of _linesToAst:
\* comments removed, lines split, the indentation detected, the root on the
\* stack.  back: the text is what stringify just returned for obj.
ParseCall(text, format, back) ==
    LET split == _processMultilineStrings(_removeComments(text))
        style == _detectIndentType(split, Style(indentType, indentSize))
    IN  /\ call' = "parse"
        /\ simpleStr' = text
        /\ arrayFormat' = format
        /\ lines' = split
        /\ next' = 1
        /\ indentType' = style.indentType
        /\ indentSize' = style.indentSize
        /\ nodes' = AstInit.nodes
        /\ stack' = AstInit.stack
        /\ ret' = NoReturn
        /\ roundTrip' = back
        /\ pc' = "lines"
        /\ UNCHANGED <<outerParsed, marks>>
        /\ obj' = IF back THEN obj ELSE Undefined

\* One iteration of the loop of _linesToAst; the Error of _parseKeyValue
\* ends the call.
ParseLine ==
    /\ pc = "lines"
    /\ next <= Len(lines)
    /\ LET st == LineStep([nodes |-> nodes, stack |-> stack, threw |-> FALSE],
                          lines[next], [arrayFormat |-> arrayFormat],
                          Style(indentType, indentSize))
       IN  /\ nodes' = st.nodes
           /\ stack' = st.stack
           /\ next' = next + 1
           /\ pc' = IF st.threw THEN "returned" ELSE "lines"
           /\ ret' = IF st.threw THEN Thrown ELSE ret
    /\ UNCHANGED <<indentType, indentSize, outerParsed, call, simpleStr,
                   arrayFormat, lines, obj, marks, roundTrip>>

\* The loop is over: parse returns _astToObject(ast).
ParseReturn ==
    /\ pc = "lines"
    /\ next > Len(lines)
    /\ ret' = ReturnValue(_astToObject(nodes, Root))
    /\ pc' = "returned"
    /\ UNCHANGED <<indentType, indentSize, outerParsed, call, simpleStr,
                   arrayFormat, lines, next, nodes, stack, obj, marks,
                   roundTrip>>

\* stringify(value, {arrayFormat: format}), the whole call.
StringifyCall(value, format) ==
    LET r == stringify(value, [defaultOptions EXCEPT !.arrayFormat = format],
                       outerParsed)
    IN  /\ call' = "stringify"
        /\ obj' = value
        /\ arrayFormat' = format
        /\ outerParsed' = r.outerParsed
        /\ marks' = r.marks
        /\ ret' = ReturnText(r.text)
        /\ pc' = "returned"
        /\ simpleStr' = <<>>
        /\ lines' = <<>>
        /\ next' = 1
        /\ nodes' = <<>>
        /\ stack' = <<>>
        /\ roundTrip' = FALSE
        /\ UNCHANGED <<indentType, indentSize>>

\* The caller drops what the last call returned; the instance keeps its
\* fields.
Return ==
    /\ pc = "returned"
    /\ pc' = "idle"
    /\ call' = "none"
    /\ simpleStr' = <<>>
    /\ arrayFormat' = "indexed"
    /\ lines' = <<>>
    /\ next' = 1
    /\ nodes' = <<>>
    /\ stack' = <<>>
    /\ obj' = Undefined
    /\ marks' = <<>>
    /\ ret' = NoReturn
    /\ roundTrip' = FALSE
    /\ UNCHANGED <<indentType, indentSize, outerParsed>>

\* --------------------------------------------- documents: parse and reparse

\* The lines documents are made of.
LinePool ==
    << <<"a", ":", " ", "1">>,
       <<"b", ":", " ", "[", "]">>,
       <<" ", " ", "c", ":", " ", "{", "}">>,
       <<" ", " ", " ", " ", "-", ":", " ", "x">>,
       <<"k", ":", " ", "{", "a", ":", " ", "1", "}">>,
       <<TAB, "d", ":", " ", "[", "1", ",", " ", "2", "]">>,
       <<" ", " ", "f", "o", "o">>,
       <<"s", ":", " ", DQ, "x">>,
       <<"#", "z", DQ>> >>

\* The most lines a document has.
MaxLines == 3

\* The document whose n lines are the lines f[1], ..., f[n] of the pool.
RECURSIVE DocText(_, _)
DocText(f, n) ==
    IF n = 0 THEN <<>>
    ELSE IF n = 1 THEN LinePool[f[1]]
    ELSE DocText(f, n - 1) \o <<LF>> \o LinePool[f[n]]

\* The caller parses a document.
ParseDoc ==
    /\ pc = "idle"
    /\ \E n \in 0..MaxLines : \E f \in [1..n -> 1..Len(LinePool)] :
         \E format \in ArrayFormats : ParseCall(DocText(f, n), format, FALSE)

\* The caller serializes the value parse returned.
StringifyParsed ==
    /\ pc = "returned"
    /\ call = "parse"
    /\ ret.kind = "value"
    /\ ~roundTrip
    /\ \E format \in ArrayFormats : StringifyCall(ret.value, format)

\* The caller parses the text stringify returned, in the same format.
ParseBack ==
    /\ pc = "returned"
    /\ call = "stringify"
    /\ ParseCall(ret.text, arrayFormat, TRUE)

Next ==
    \/ ParseDoc
    \/ ParseLine
    \/ ParseReturn
    \/ StringifyParsed
    \/ ParseBack
    \/ Return

Spec == Init /\ [][Next]_vars

\* ------------------------------------------- documents: one block sequence

\* The keys the children of the sequence are written with: an index, the
\* placeholder, ranges (the first overlaps the index 0, the others are those
\* of the demo document), and no key at all, a bare value line.
SeqKeyPool ==
    << <<"0">>,
       <<"-">>,
       <<"0", "-", "1">>,
       <<"1", "-", "3">>,
       <<"5", "-", "6">>,
       <<>> >>

\* The values child j is written with: a word of its own, or a number, the
\* numbers being 0, 1, 0 as those of the children of the demo document.
SeqWords == <<"p", "q", "r", "s", "u">>

SeqNumbers == <<"0", "1", "0", "1", "0">>

SeqValuePool(j) == << <<SeqWords[j]>>, <<SeqNumbers[j]>> >>

\* The most children the sequence has.
MaxChildren == 3

\* Child line j: '  key: value', or '  value' when there is no key.
SeqLine(key, value) ==
    IF key = <<>> THEN <<" ", " ">> \o value
    ELSE <<" ", " ">> \o key \o <<":", " ">> \o value

\* The document 't: []' followed by n child lines.
RECURSIVE SeqDoc(_, _, _)
SeqDoc(f, g, n) ==
    IF n = 0 THEN <<"t", ":", " ", "[", "]">>
    ELSE SeqDoc(f, g, n - 1) \o <<LF>>
         \o SeqLine(SeqKeyPool[f[n]], SeqValuePool(n)[g[n]])

\* The caller parses a document that is one block sequence.
ParseSeqDoc ==
    /\ pc = "idle"
    /\ \E n \in 1..MaxChildren :
         \E f \in [1..n -> 1..Len(SeqKeyPool)] : \E g \in [1..n -> 1..2] :
           \E format \in ArrayFormats : ParseCall(SeqDoc(f, g, n), format, FALSE)

NextSeq ==
    \/ ParseSeqDoc
    \/ ParseLine
    \/ ParseReturn
    \/ Return

SpecSeq == Init /\ [][NextSeq]_vars

\* ------------------------------------------------- values: stringify alone

\* The characters strings are made of: a letter, a digit, a structural
\* character, a space and the four characters _escapeString rewrites.
SerChars == {"a", "1", ":", " ", LF, TAB, BSL, DQ}

\* The longest string made of them.
MaxStrLen == 3

\* The keywords, the other structural characters, and the strings '21',
\* 'hello' and 'a: b'.
SerWords ==
    { <<"N", "o", "n", "e">>, <<"t", "r", "u", "e">>,
      <<"f", "a", "l", "s", "e">>, <<"h", "e", "l", "l", "o">>,
      <<"2", "1">>, <<"a", ":", " ", "b">>, <<"n", "o", "n", "e">>,
      <<",">>, <<"[">>, <<"]">>, <<"{">>, <<"}">>, <<"a", CR>> }

SerStrings == SerWords \cup UNION {[1..n -> SerChars] : n \in 0..MaxStrLen}

\* The elements of sequences: scalars, empty and inline containers, two
\* mappings that differ in the order of their keys only, and a mapping that
\* is rendered in block form.
ElemPool ==
    << MkInt(1),
       MkInt(2),
       MkString(<<"x">>),
       MkArray(<<>>),
       MkArray(<<MkInt(1)>>),
       MkObject(<< <<(<<"a">>), MkInt(1)>>, <<(<<"b">>), MkInt(2)>> >>),
       MkObject(<< <<(<<"b">>), MkInt(2)>>, <<(<<"a">>), MkInt(1)>> >>),
       MkObject(<< <<(<<"a">>), MkArray(<<>>)>> >>) >>

\* The longest sequence made of them.
MaxArr == 4

\* The keys and the values of mappings.
MapKeys == << <<"a">>, <<"b">>, <<"c">>, <<"d">>, <<"e">> >>

MapElemPool ==
    << MkInt(1),
       MkString(<<"x">>),
       MkArray(<<>>),
       MkObject(<<>>),
       MkArray(<<MkInt(1)>>),
       MkObject(<< <<(<<"a">>), MkArray(<<>>)>> >>) >>

\* The most entries a mapping has.
MaxEntries == 4

\* The value of the demo: { name: "test", data: [1, 1, 1, 2, ...] }.
data ==
    MkArray(<<MkInt(1), MkInt(1), MkInt(1), MkInt(2), MkInt(3), MkInt(3),
              MkInt(4), MkInt(4), MkInt(4), MkInt(4), MkInt(5)>>)

arrayWithRepeats ==
    MkObject(<< <<(<<"n", "a", "m", "e">>), MkString(<<"t", "e", "s", "t">>)>>,
                <<(<<"d", "a", "t", "a">>), data>> >>)

\* The caller serializes a string.
StringifyString ==
    /\ pc = "idle"
    /\ \E str \in SerStrings : \E format \in ArrayFormats :
         StringifyCall(MkString(str), format)

\* The caller serializes a sequence.
StringifySequence ==
    /\ pc = "idle"
    /\ \E n \in 1..MaxArr : \E f \in [1..n -> 1..Len(ElemPool)] :
         \E format \in ArrayFormats :
           StringifyCall(MkArray([k \in 1..n |-> ElemPool[f[k]]]), format)

\* The caller serializes a mapping.
StringifyMapping ==
    /\ pc = "idle"
    /\ \E n \in 1..MaxEntries : \E f \in [1..n -> 1..Len(MapElemPool)] :
         \E format \in ArrayFormats :
           StringifyCall(
               MkObject([k \in 1..n |-> <<MapKeys[k], MapElemPool[f[k]]>>]),
               format)

\* The caller serializes the value of the demo, or its sequence alone.
StringifyDemo ==
    /\ pc = "idle"
    /\ \E format \in ArrayFormats :
         \/ StringifyCall(arrayWithRepeats, format)
         \/ StringifyCall(data, format)

NextSer ==
    \/ StringifyString
    \/ StringifySequence
    \/ StringifyMapping
    \/ StringifyDemo
    \/ Return

SpecSer == Init /\ [][NextSer]_vars

\* --------------------------------------- texts: the scanners on their own

\* The characters of string tokens: the backslash, the characters that make
\* an escape with it, and one that does not.
TokenChars == {BSL, "n", "r", "t", DQ, "x"}

\* The longest string token.
MaxTokenLen == 3

Tokens == UNION {[1..n -> TokenChars] : n \in 0..MaxTokenLen}

\* The characters of the texts comments are removed from: the quotes, the
\* backslash, the comment markers, the line break and a letter.
CommentChars == {DQ, SQ, BSL, "#", "/", "*", LF, "a"}

\* The characters of the texts lines are made from: the quotes, the
\* backslash, the letters that make an escape with it, the line break,
\* a space and a letter.
LineChars == {DQ, SQ, BSL, "n", "t", LF, " ", "a"}

\* The longest text.
MaxTextLen == 4

CommentTexts == UNION {[1..n -> CommentChars] : n \in 0..MaxTextLen}

LineTexts == UNION {[1..n -> LineChars] : n \in 0..MaxTextLen}

\* A call of one of the scanners on `text`: what it returns is in ret, or
\* in lines when it returns lines.
ScannerCall(name, text, outText, outLines) ==
    /\ pc = "idle"
    /\ pc' = "returned"
    /\ call' = name
    /\ simpleStr' = text
    /\ ret' = ReturnText(outText)
    /\ lines' = outLines
    /\ UNCHANGED <<indentType, indentSize, outerParsed, arrayFormat, next,
                   nodes, stack, obj, marks, roundTrip>>

\* this._parseString(token)
DecodeToken ==
    \E token \in Tokens :
        ScannerCall("_parseString", token, _parseString(token), <<>>)

\* this._removeComments(text)
StripComments ==
    \E text \in CommentTexts :
        ScannerCall("_removeComments", text, _removeComments(text), <<>>)

\* this._processMultilineStrings(text)
SplitLines ==
    \E text \in LineTexts :
        ScannerCall("_processMultilineStrings", text, <<>>,
                    _processMultilineStrings(text))

NextText ==
    \/ DecodeToken
    \/ StripComments
    \/ SplitLines
    \/ Return

SpecText == Init /\ [][NextText]_vars

\* ================================================================ claims

\* Two values are the same value: same kinds, same scalars, same elements
\* in the same order, same entries in the same order.
RECURSIVE SameValue(_, _)
SameValue(a, b) ==
    /\ a.type = b.type
    /\ CASE a.type \in {"number", "string", "boolean"} -> a.value = b.value
         [] a.type = "array" ->
                /\ Len(a.value) = Len(b.value)
                /\ \A i \in 1..Len(a.value) : SameValue(a.value[i], b.value[i])
         [] a.type = "object" ->
                /\ Len(a.value) = Len(b.value)
                /\ \A i \in 1..Len(a.value) :
                       /\ a.value[i][1] = b.value[i][1]
                       /\ SameValue(a.value[i][2], b.value[i][2])
         [] OTHER -> TRUE

\* Structural equality: as SameValue, but a mapping equals a mapping with
\* the same keys bound to structurally equal values, in any order.
RECURSIVE StructurallyEqual(_, _)
StructurallyEqual(a, b) ==
    /\ a.type = b.type
    /\ CASE a.type \in {"number", "string", "boolean"} -> a.value = b.value
         [] a.type = "array" ->
                /\ Len(a.value) = Len(b.value)
                /\ \A i \in 1..Len(a.value) :
                       StructurallyEqual(a.value[i], b.value[i])
         [] a.type = "object" ->
                /\ Len(a.value) = Len(b.value)
                /\ \A i \in 1..Len(a.value) : \E j \in 1..Len(b.value) :
                       /\ a.value[i][1] = b.value[j][1]
                       /\ StructurallyEqual(a.value[i][2], b.value[j][2])
         [] OTHER -> TRUE

ParseReturned == pc = "returned" /\ call = "parse"

\* ---------------------------------------------------------------------- C1
\* C1 (as claimed): round trip.  When the text stringify returned for a
\* value v that parse produced is parsed again in the same array format,
\* the parse returns a value structurally equal to v.
C1_RoundTrip ==
    (ParseReturned /\ roundTrip) =>
        (ret.kind = "value" /\ StructurallyEqual(ret.value, obj))

\* ---------------------------------------------------------------------- C2
\* The state of the loop of _linesToAst when line k is reached (as long as
\* no earlier line threw), and the type of the frame that is line k's parent.
StateBefore(k) ==
    _linesToAstFrom(SubSeq(lines, 1, k - 1), 1, AstInit,
                    [arrayFormat |-> arrayFormat],
                    Style(indentType, indentSize))

ParentTypeOf(k) ==
    LET st == StateBefore(k)
        open == PopFrames(st.stack,
                    _getIndentLevel(lines[k], Style(indentType, indentSize)))
    IN  st.nodes[open[Len(open)].node].type

\* Line k has no colon and the pure-value exception does not apply to it.
InvalidLine(k) ==
    /\ ~Includes(lines[k], ":")
    /\ ~(arrayFormat = "values" /\ ParentTypeOf(k) = "array")

\* C2 (as claimed): parse fails, with the InvalidLine error and without a
\* value, exactly when some non-blank logical line has no colon and the
\* pure-value exception does not apply to it.
C2_InvalidLineExactly ==
    ParseReturned =>
        /\ ret.kind \in {"error", "value"}
        /\ ret.kind = "error" <=> \E k \in 1..Len(lines) : InvalidLine(k)

\* ---------------------------------------------------------------------- C3
\* The document parsed is 't: []' and its children: node 2 is the sequence,
\* its children are the child lines in order, and parse returned {t: A}.
SeqReturned ==
    /\ ParseReturned
    /\ ret.kind = "value"
    /\ Len(nodes) >= 2
    /\ nodes[2].key = <<"t">>
    /\ nodes[2].type = "array"

SeqKids == nodes[2].children

SeqResult == ret.value.value[1][2].value

KidKey(j) == nodes[SeqKids[j]].key

KidValue(j) == nodes[SeqKids[j]].value

IsDash(j) == KidKey(j) = <<"-">>

\* The indices the key of child j names: none for the placeholder, one for
\* an integer, start..end for a range.
Named(j) ==
    LET key == KidKey(j)
        h == CHOOSE i \in 1..Len(key) : key[i] = "-"
    IN  IF IsDash(j) THEN {}
        ELSE IF Includes(key, "-")
        THEN DigitsValue(SubSeq(key, 1, h - 1))
             .. DigitsValue(SubSeq(key, h + 1, Len(key)))
        ELSE {DigitsValue(key)}

Claimed == UNION {Named(j) : j \in 1..Len(SeqKids)}

SetMax(S) == CHOOSE x \in S : \A y \in S : y <= x

\* Placeholder child j is the r-th placeholder; its slot is the r-th lowest
\* index no explicit or range key names.
DashRank(j) == Cardinality({i \in 1..j : IsDash(i)})

Slot(j) ==
    LET top == IF Claimed = {} THEN 0 ELSE SetMax(Claimed) + 1
    IN  CHOOSE i \in 0..(top + Len(SeqKids)) :
            /\ i \notin Claimed
            /\ Cardinality({x \in 0..(i - 1) : x \notin Claimed}) = DashRank(j) - 1

Slots == {Slot(j) : j \in {i \in 1..Len(SeqKids) : IsDash(i)}}

\* The placeholder values sit in encounter order at the lowest unclaimed
\* indices, the sequence ends at the highest index used, and every position
\* not used holds the number 0.
PlaceholdersAndGaps ==
    LET used == Claimed \cup Slots
    IN  /\ Len(SeqResult) = IF used = {} THEN 0 ELSE SetMax(used) + 1
        /\ \A j \in 1..Len(SeqKids) :
               IsDash(j) => SameValue(SeqResult[Slot(j) + 1], KidValue(j))
        /\ \A i \in 0..(Len(SeqResult) - 1) :
               i \notin used => SameValue(SeqResult[i + 1], MkInt(0))

\* The children of the demo document: '1-3: 0', '5-6: 1', '-: 0'.
DemoChildren ==
    /\ Len(SeqKids) = 3
    /\ KidKey(1) = <<"1", "-", "3">> /\ SameValue(KidValue(1), MkInt(0))
    /\ KidKey(2) = <<"5", "-", "6">> /\ SameValue(KidValue(2), MkInt(1))
    /\ KidKey(3) = <<"-">> /\ SameValue(KidValue(3), MkInt(0))

DemoResult ==
    /\ Len(SeqResult) = 7
    /\ \A i \in 1..5 : SameValue(SeqResult[i], MkInt(0))
    /\ \A i \in 6..7 : SameValue(SeqResult[i], MkInt(1))

\* C3 (amended): index reconciliation.  Every index named by an explicit or
\* range key holds the value of the last child whose key names it, the
\* placeholder values sit in encounter order at the lowest indices no
\* explicit or range key names, every other position below the length holds
\* the number 0, and the children '1-3: 0', '5-6: 1', '-: 0' give
\* [0,0,0,0,0,1,1].
C3_Reconciled ==
    SeqReturned =>
        /\ \A i \in Claimed :
               LET last == SetMax({j \in 1..Len(SeqKids) : i \in Named(j)})
               IN  SameValue(SeqResult[i + 1], KidValue(last))
        /\ PlaceholdersAndGaps
        /\ DemoChildren => DemoResult

\* C3 (as claimed): the value of each explicit or range child is held at
\* every index its key names; placeholders and gaps as above.
C3_EveryNamedIndex ==
    SeqReturned =>
        /\ \A j \in 1..Len(SeqKids) : \A i \in Named(j) :
               SameValue(SeqResult[i + 1], KidValue(j))
        /\ PlaceholdersAndGaps

\* The demo children were parsed: a placeholder went below a range, and the
\* gap at index 4 was filled.
C3_Witness == SeqReturned /\ DemoChildren /\ DemoResult

\* ---------------------------------------------------------------------- C4
StringifyReturned == pc = "returned" /\ call = "stringify"

CallOptions == [defaultOptions EXCEPT !.arrayFormat = arrayFormat]

\* The places (from 1) where a maximal run of consecutive structurally
\* equal elements of arr starts, and the place where the run from s ends.
RunStarts(arr) ==
    {s \in 1..Len(arr) : s = 1 \/ ~StructurallyEqual(arr[s - 1], arr[s])}

RunLast(arr, s) ==
    CHOOSE e \in s..Len(arr) :
        /\ e = Len(arr) \/ (e + 1) \in RunStarts(arr)
        /\ \A x \in (s + 1)..e : x \notin RunStarts(arr)

\* The line of the run from s, written at `level`: 'start-end: value' for a
\* run of more than one element, 'index: value' for a run of one; flag says
\* whether a block-form mapping was rendered earlier in the call.
RunLine(arr, s, level, flag) ==
    LET e == RunLast(arr, s)
        key == IF e > s
               THEN IntToString(s - 1) \o <<"-">> \o IntToString(e - 1)
               ELSE IntToString(s - 1)
        earlier == \E q \in RunStarts(arr) :
                       /\ q < s
                       /\ _objectToSimple(arr[q], level, CallOptions, FALSE).outerParsed
    IN  [k \in 1..(2 * level) |-> " "] \o key \o <<":", " ">>
        \o _objectToSimple(arr[s], level, CallOptions, flag \/ earlier).text

\* The lines of the runs from s on, each after a line break.
RECURSIVE RunLines(_, _, _, _)
RunLines(arr, s, level, flag) ==
    IF s > Len(arr) THEN <<>>
    ELSE <<LF>> \o RunLine(arr, s, level, flag)
         \o RunLines(arr, RunLast(arr, s) + 1, level, flag)

\* The text of the block sequence arr whose lines are at `level`.
RunLengthBlock(arr, level, flag) == <<"[", "]">> \o RunLines(arr, 1, level, flag)

\* The lines of [1,1,1,2,3,3,4,4,4,4,5]: 0-2: 1, 3: 2, 4-5: 3, 6-9: 4, 10: 5.
DemoLines ==
    <<"[", "]", LF, " ", " ", "0", "-", "2", ":", " ", "1", LF,
      " ", " ", "3", ":", " ", "2", LF, " ", " ", "4", "-", "5",
      ":", " ", "3", LF, " ", " ", "6", "-", "9", ":", " ", "4",
      LF, " ", " ", "1", "0", ":", " ", "5">>

\* C4: run-length compression.  In 'indexed' mode the text of a block
\* sequence is the '[]' line followed by one line per maximal run of
\* consecutive structurally equal elements, in increasing order of index:
\* 'start-end: value' for a run longer than 1, 'index: value' for a run of 1;
\* the sequence of the demo gives exactly the lines 0-2: 1, 3: 2, 4-5: 3,
\* 6-9: 4, 10: 5, alone and as the value of data.
C4_RunLength ==
    (StringifyReturned /\ arrayFormat = "indexed") =>
        /\ (obj.type = "array" /\ StartsWith(ret.text, <<"[", "]", LF>>)) =>
               ret.text = RunLengthBlock(obj.value, 1, FALSE)
        /\ SameValue(obj, data) => ret.text = DemoLines
        /\ SameValue(obj, arrayWithRepeats) =>
               ret.text = <<"n", "a", "m", "e", ":", " ", "t", "e", "s", "t", LF,
                            "d", "a", "t", "a", ":", " ">>
                          \o RunLengthBlock(data.value, 2, TRUE)

\* A block sequence with a run of two containers that differ in the order
\* of their keys only, between two runs of one, was serialized.
C4_Witness ==
    /\ StringifyReturned
    /\ arrayFormat = "indexed"
    /\ obj.type = "array"
    /\ Len(obj.value) = 4
    /\ RunStarts(obj.value) = {1, 2, 4}
    /\ obj.value[2].type = "object"
    /\ ~SameValue(obj.value[2], obj.value[3])
    /\ StartsWith(ret.text, <<"[", "]", LF>>)

\* ---------------------------------------------------------------------- C5
\* What the call in progress returns on an instance just constructed.
FreshParse == parse(simpleStr, [arrayFormat |-> arrayFormat], Style(NULL, 0))

FreshStringify ==
    stringify(obj, [defaultOptions EXCEPT !.arrayFormat = arrayFormat], FALSE)

NoIndentedLine == FirstIndentedLine(lines, 1) = 0

\* C5 (as claimed): call-scoped state.  Whatever calls were made before on
\* the instance, a call returns what it returns on a fresh instance, and a
\* document with no indented line is parsed with style space, size 2.
C5_CallScoped ==
    /\ (ParseReturned /\ ret.kind = "error") => FreshParse.threw
    /\ (ParseReturned /\ ret.kind = "value") =>
           (~FreshParse.threw /\ SameValue(ret.value, FreshParse.value))
    /\ (pc = "returned" /\ call = "stringify") =>
           ret.text = FreshStringify.text
    /\ (call = "parse" /\ NoIndentedLine) =>
           (indentType = "space" /\ indentSize = 2)

\* ---------------------------------------------------------------------- C6
\* The elements of the sequence arr that are rendered in block form: all of
\* them in 'values' mode, the first of each run in 'indexed' mode.
RenderedElements(arr) ==
    IF arrayFormat = "indexed" THEN RunStarts(arr) ELSE 1..Len(arr)

\* The mapping v is of the kind asked for: rendered in block form, or empty.
IsMappingOf(v, kind) ==
    IF kind = "block" THEN ~_shouldInlineObject(v.value) ELSE v.value = <<>>

\* How many of the mappings rendered for v are of that kind; a sequence in
\* inline form holds scalars only.
RECURSIVE MappingsRendered(_, _)
RECURSIVE MappingsIn(_, _, _, _)
MappingsIn(items, k, which, kind) ==
    IF k > Len(items) THEN 0
    ELSE (IF k \in which THEN MappingsRendered(items[k], kind) ELSE 0)
         + MappingsIn(items, k + 1, which, kind)

MappingsRendered(v, kind) ==
    IF v.type = "array" THEN
        MappingsIn(v.value, 1, RenderedElements(v.value), kind)
    ELSE IF v.type = "object" THEN
        (IF IsMappingOf(v, kind) THEN 1 ELSE 0)
        + MappingsIn([k \in 1..Len(v.value) |-> v.value[k][2]], 1,
                     1..Len(v.value), kind)
    ELSE 0

\* How many times the two characters '{}' stand in text.
MarkerCount(text) ==
    Cardinality({i \in 1..(Len(text) - 1) : text[i] = "{" /\ text[i + 1] = "}"})

\* C6: the one-shot root-mapping marker.  In every stringify call, also one
\* that follows other calls on the instance, the flag is false until the
\* first block-form mapping is rendered and true from then on up to the end
\* of the call: the first block-form mapping rendered is written without
\* the '{}' line and every later one with it, so that the text holds one
\* '{}' per block-form mapping but the first (and one per empty mapping).
C6_OneShotMarker ==
    StringifyReturned =>
        /\ Len(marks) = MappingsRendered(obj, "block")
        /\ \A k \in 1..Len(marks) : marks[k] = (k > 1)
        /\ outerParsed = (marks # <<>>)
        /\ MarkerCount(ret.text) =
               (IF marks = <<>> THEN 0 ELSE Len(marks) - 1)
               + MappingsRendered(obj, "empty")

\* A call rendered three block-form mappings, the root and two of its
\* values: the text holds two '{}' lines.
C6_Witness ==
    /\ StringifyReturned
    /\ obj.type = "object"
    /\ Len(marks) = 3
    /\ MarkerCount(ret.text) = 2

\* ---------------------------------------------------------------------- C7
\* text is the inline form of a container of the given type.
InlineForm(text, type) ==
    /\ ~Includes(text, LF)
    /\ text[1] = (IF type = "array" THEN "[" ELSE "{")
    /\ text[Len(text)] = (IF type = "array" THEN "]" ELSE "}")

IsScalarOrEmpty(v) == IsContainer(v) => v.value = <<>>

EntryValues(v) ==
    IF v.type = "array" THEN v.value
    ELSE [k \in 1..Len(v.value) |-> v.value[k][2]]

\* C7 (as claimed): the inlining rule.  A non-empty sequence or mapping is
\* serialized inline exactly when it has at most 3 entries and every entry
\* is a scalar or an empty container.
C7_InlineRule ==
    (StringifyReturned /\ IsContainer(obj) /\ obj.value # <<>>) =>
        (InlineForm(ret.text, obj.type)
            <=> /\ Len(obj.value) <= 3
                /\ \A k \in 1..Len(obj.value) :
                       IsScalarOrEmpty(EntryValues(obj)[k]))

\* ---------------------------------------------------------------------- C8
Whitespace == {" ", TAB, LF, CR}

Structural == {":", ",", "[", "]", "{", "}"}

Escaped == {LF, TAB, BSL, DQ}

\* The raw text starts with a digit, is a keyword, holds a structural
\* character, or has leading or trailing whitespace.
MustQuote(str) ==
    \/ str # <<>> /\ str[1] \in {"0", "1", "2", "3", "4", "5", "6", "7", "8", "9"}
    \/ str \in { <<"N", "o", "n", "e">>, <<"t", "r", "u", "e">>,
                 <<"f", "a", "l", "s", "e">> }
    \/ \E i \in 1..Len(str) : str[i] \in Structural
    \/ str # <<>> /\ (str[1] \in Whitespace \/ str[Len(str)] \in Whitespace)

EscapeOf(c) ==
    CASE c = LF -> <<BSL, "n">>
      [] c = TAB -> <<BSL, "t">>
      [] c = BSL -> <<BSL, BSL>>
      [] c = DQ -> <<BSL, DQ>>
      [] OTHER -> <<c>>

\* text is str with each of the four characters written as its escape and
\* every other character as itself: character i of str stands in text after
\* the i - 1 characters before it and one more for each escape among them.
IsEscapedText(str, text) ==
    LET Offset(i) == (i - 1) + Cardinality({j \in 1..(i - 1) : str[j] \in Escaped})
    IN  /\ Len(text) = Offset(Len(str) + 1)
        /\ \A i \in 1..Len(str) :
               SubSeq(text, Offset(i) + 1, Offset(i + 1)) = EscapeOf(str[i])

\* C8: string quoting.  stringify writes a string between double quotes
\* exactly when its raw text starts with a digit, is None, true or false,
\* holds one of : , [ ] { }, or has leading or trailing whitespace, and
\* unquoted otherwise; either way linefeed, tab, backslash and double quote
\* are written as their two-character escapes and nothing else is changed.
C8_Quoting ==
    (StringifyReturned /\ obj.type = "string") =>
        IF MustQuote(obj.value)
        THEN /\ Len(ret.text) >= 2
             /\ ret.text[1] = DQ
             /\ ret.text[Len(ret.text)] = DQ
             /\ IsEscapedText(obj.value, SubSeq(ret.text, 2, Len(ret.text) - 1))
        ELSE IsEscapedText(obj.value, ret.text)

\* A string that starts with a digit and holds a double quote and a
\* linefeed was written quoted, with both escaped.
C8_Witness ==
    /\ StringifyReturned
    /\ obj.type = "string"
    /\ obj.value = <<"1", DQ, LF>>
    /\ ret.text = <<DQ, "1", BSL, DQ, BSL, "n", DQ>>

\* ---------------------------------------------------------------------- C9
\* Node n came from a line whose value is a non-empty inline array or
\* mapping.
IsInlineNode(n) ==
    IsContainer(nodes[n].value) /\ nodes[n].value.value # <<>>

\* C9 (as claimed): only the literal '{}' or '[]' opens a block container;
\* a non-empty inline array or mapping is a leaf, and parse returns its
\* parsed value under the line's key.
C9_InlineIsLeaf ==
    (ParseReturned /\ ret.kind = "value") =>
        \A n \in 2..Len(nodes) : IsInlineNode(n) =>
            /\ ~nodes[n].hasChildren
            /\ SameValue(_astToObject(nodes, n), nodes[n].value)

\* --------------------------------------------------------------------- C10
\* The frame stack is non-empty, its bottom frame is the root sentinel with
\* indent -1 and the indents increase strictly from bottom to top.
FrameStackOk ==
    /\ Len(stack) >= 1
    /\ stack[1] = [node |-> Root, indent |-> -1]
    /\ \A k \in 1..(Len(stack) - 1) : stack[k].indent < stack[k + 1].indent

\* The frame of `stack` that is on top once the frames of indent >= level
\* are popped: the topmost frame below which no frame has to go.
ParentFrame(level) ==
    CHOOSE k \in 1..Len(stack) :
        /\ k = 1 \/ stack[k].indent < level
        /\ \A j \in (k + 1)..Len(stack) : stack[j].indent >= level

\* A step of the loop that made a node appended it, as the last child, to
\* the node of that frame, popped the frames above it and nothing else, and
\* pushed the node's frame when the node has children.
AppendedToParent ==
    LET n == Len(nodes')
        level == nodes'[n].indent
        k == ParentFrame(level)
        parent == stack[k].node
    IN  /\ nodes'[parent].children = Append(nodes[parent].children, n)
        /\ \A m \in 1..Len(nodes) :
               m # parent => nodes'[m].children = nodes[m].children
        /\ stack' = IF nodes'[n].hasChildren
                    THEN Append(SubSeq(stack, 1, k), [node |-> n, indent |-> level])
                    ELSE SubSeq(stack, 1, k)

\* C10: the frame-stack invariant holds at every point of a parse, and
\* every line's node goes to the frame on top after the pops.
C10_FrameStack ==
    /\ [](call = "parse" => FrameStackOk)
    /\ [][(pc = "lines" /\ Len(nodes') = Len(nodes) + 1) => AppendedToParent]_vars

\* A line was processed after the container of an earlier line was closed:
\* a node with children is off the stack, and a container is open.
C10_Witness ==
    /\ pc = "lines"
    /\ next > 1
    /\ Len(stack) >= 2
    /\ \E n \in 2..Len(nodes) :
           nodes[n].hasChildren /\ \A k \in 1..Len(stack) : stack[k].node # n

\* --------------------------------------------------------------------- C11
\* What an escape stands for: the character after the backslash decides.
DecodeOf(c) ==
    CASE c = "n" -> LF
      [] c = "r" -> CR
      [] c = "t" -> TAB
      [] OTHER -> c

\* The token read from left to right, each backslash taken with the
\* character after it: the pair stands for linefeed, carriage return, tab,
\* backslash or double quote, and for the character itself otherwise.
RECURSIVE Decoded(_)
Decoded(str) ==
    IF str = <<>> THEN <<>>
    ELSE IF str[1] = BSL /\ Len(str) >= 2
    THEN <<DecodeOf(str[2])>> \o Decoded(SubSeq(str, 3, Len(str)))
    ELSE <<str[1]>> \o Decoded(Tail(str))

\* C11 (as claimed): escape decoding of a string token.  \n, \r, \t, \\ and
\* \" decode to linefeed, carriage return, tab, backslash and double quote;
\* of a backslash followed by any other character the backslash is dropped
\* and the character kept.
C11_EscapeDecoding ==
    (pc = "returned" /\ call = "_parseString") =>
        ret.text = Decoded(simpleStr)

\* --------------------------------------------------------------------- C12
SplitReturned == pc = "returned" /\ call = "_processMultilineStrings"

\* The variables of the scan of _processMultilineStrings over the text of
\* the call after k iterations of its loop (the last ones, once it is over).
ScanAfter(k) ==
    _processMultilineStringsLoop(simpleStr,
        [i |-> 0, lines |-> <<>>, currentLine |-> <<>>,
         inString |-> FALSE, stringChar |-> NULL], k)

\* The lines the scan ended with, the unfinished one included.
ScannedLines ==
    LET st == ScanAfter(Len(simpleStr))
    IN  IF st.currentLine # <<>> THEN Append(st.lines, st.currentLine)
        ELSE st.lines

IsNotBlank(line) == Trim(line) # <<>>

\* Iteration k + 1 of the scan reads a line break while the scan is inside
\* a quoted string.
BreakInString(k) ==
    LET st == ScanAfter(k)
    IN  st.i < Len(simpleStr) /\ CharAt(simpleStr, st.i) = LF /\ st.inString

\* Iteration k + 1 reads, inside a string, a backslash followed by c.
EscapeInString(k, c) ==
    LET st == ScanAfter(k)
    IN  /\ st.i < Len(simpleStr)
        /\ CharAt(simpleStr, st.i) = BSL
        /\ CharAt(simpleStr, st.i + 1) = c
        /\ st.inString

\* Iteration k + 1 ends no line, and appends exactly c to the current one.
AppendsOnly(k, c) ==
    /\ ScanAfter(k + 1).lines = ScanAfter(k).lines
    /\ ScanAfter(k + 1).currentLine = Append(ScanAfter(k).currentLine, c)

\* C12 (as claimed): the line reconstructor ends no logical line while the
\* scan is inside a quoted string; inside a string \n and \t are decoded to
\* a linefeed and a tab appended to the current line; blank lines are
\* dropped and the order of the others is kept.
C12_NoSplitInString ==
    SplitReturned =>
        /\ \A k \in 0..(Len(simpleStr) - 1) :
               /\ BreakInString(k) => ScanAfter(k + 1).lines = ScanAfter(k).lines
               /\ EscapeInString(k, "n") => AppendsOnly(k, LF)
               /\ EscapeInString(k, "t") => AppendsOnly(k, TAB)
        /\ lines = SelectSeq(ScannedLines, IsNotBlank)

\* --------------------------------------------------------------------- C13
StripReturned == pc = "returned" /\ call = "_removeComments"

\* The position (from 1) of the first line break of str at or after i, or
\* Len(str) + 1 when there is none.
RECURSIVE EndOfLine(_, _)
EndOfLine(str, i) ==
    IF i > Len(str) \/ str[i] = LF THEN i ELSE EndOfLine(str, i + 1)

\* str from position i (from 1) on with the comment spans deleted, read in
\* mode "text" (outside strings and comments), "string" (inside a string
\* opened by the quote q) or "block" (inside a block comment). Inside a
\* string a backslash keeps itself and the character after it.
RECURSIVE StripFrom(_, _, _, _)
StripFrom(str, i, mode, q) ==
    IF i > Len(str) THEN <<>>
    ELSE LET c == str[i]
             followedBy(d) == i < Len(str) /\ str[i + 1] = d
         IN  CASE mode = "block" ->
                    IF c = "*" /\ followedBy("/")
                    THEN StripFrom(str, i + 2, "text", q)
                    ELSE StripFrom(str, i + 1, "block", q)
               [] mode = "string" ->
                    IF c = BSL
                    THEN IF i < Len(str)
                         THEN <<c, str[i + 1]>> \o StripFrom(str, i + 2, "string", q)
                         ELSE <<c>>
                    ELSE IF c = q
                    THEN <<c>> \o StripFrom(str, i + 1, "text", q)
                    ELSE <<c>> \o StripFrom(str, i + 1, "string", q)
               [] OTHER ->
                    IF c \in {DQ, SQ}
                    THEN <<c>> \o StripFrom(str, i + 1, "string", c)
                    ELSE IF c = "/" /\ followedBy("*")
                    THEN StripFrom(str, i + 2, "block", q)
                    ELSE IF c = "#" \/ (c = "/" /\ followedBy("/"))
                    THEN StripFrom(str, EndOfLine(str, i), "text", q)
                    ELSE <<c>> \o StripFrom(str, i + 1, "text", q)

Stripped(str) == StripFrom(str, 1, "text", DQ)

\* C13 (as claimed): comment stripping only removes: the text returned by
\* _removeComments is the input with exactly the comment spans deleted
\* (a block comment, or '//' or '#' up to but not including the line
\* break, when the marker is outside a quoted string), every other
\* character kept in order, and holds no character that is not in the
\* input.
C13_OnlyRemoves ==
    StripReturned =>
        /\ ret.text = Stripped(simpleStr)
        /\ \A k \in 1..Len(ret.text) :
               \E j \in 1..Len(simpleStr) : simpleStr[j] = ret.text[k]

====
